---------------------------- MODULE Spec2Model ----------------------------
(***************************************************************************)
(* A model of the Go package rwxrob/json: the Escape function, the         *)
(* Array / Object / This receivers with their JSON, JSONL, String,         *)
(* StringLong, Print, PrintLong, Log and LogLong methods, UnmarshalJSON,   *)
(* Req, and the encoding/json routines those delegate to.                  *)
(*                                                                         *)
(* A Go string or []byte is a sequence of bytes (0..255).  Text is always  *)
(* kept at the byte level, so that ranging over a string (UTF-8 decoding)  *)
(* and string(r) (UTF-8 encoding) are real conversions.                    *)
(***************************************************************************)
EXTENDS Integers, Sequences, FiniteSets, TLC

VARIABLES
    in,      \* the argument of the pending / last call (Escape input, Unmarshal text)
    recv,    \* the receiver: an Array, an Object or a This, as a tagged value
    heap,    \* the structures reachable through pointers
    stdout,  \* os.Stdout: the sequence of byte strings written
    logch,   \* the log package's output: the sequence of records written
    ret,     \* the bytes / string returned by the last call
    err,     \* the error returned by the last call ("" is nil)
    op,      \* the last call made ("init" before any)
    calls,   \* the number of calls made of the methods that can change the state
    sent,    \* the number of HTTP calls made (Client.Do)
    panicked, \* whether the program has panicked
    res      \* what the last call of Req got from Client.Do, if it came to it

vars == <<in, recv, heap, stdout, logch, ret, err, op, calls, sent, panicked, res>>

----------------------------------------------------------------------------
(* Bounds of the model.                                                    *)

\* the longest Escape input, in characters
MaxLen == 3

\* the most calls of the methods that can change the state, in one run
MaxCalls == 2

----------------------------------------------------------------------------
(* Control flow.                                                           *)

\* x := e, then the statements F that use x: e is worked out once, however
\* often x is used.
With(e, F(_)) == F(e)

----------------------------------------------------------------------------
(* Characters and byte strings.                                            *)

\* The ASCII table: the character of each code 1..126, written as in a Go rune
\* literal ("BS" stands for '\b'; "" marks a code the model never writes).
Ascii ==
    <<
      "", "", "", "", "", "", "", "BS", "\t", "\n", "", "\f",
      "\r", "", "", "", "", "", "", "", "", "", "", "",
      "", "", "", "", "", "", "", " ", "!", "\"", "#", "$",
      "%", "&", "'", "(", ")", "*", "+", ",", "-", ".", "/", "0",
      "1", "2", "3", "4", "5", "6", "7", "8", "9", ":", ";", "<",
      "=", ">", "?", "@", "A", "B", "C", "D", "E", "F", "G", "H",
      "I", "J", "K", "L", "M", "N", "O", "P", "Q", "R", "S", "T",
      "U", "V", "W", "X", "Y", "Z", "[", "\\", "]", "^", "_", "",
      "a", "b", "c", "d", "e", "f", "g", "h", "i", "j", "k", "l",
      "m", "n", "o", "p", "q", "r", "s", "t", "u", "v", "w", "x",
      "y", "z", "{", "|", "}", "~"
    >>

\* The byte of every ASCII character.
Bytes == [c \in {Ascii[n] : n \in 1..126} |-> CHOOSE n \in 1..126 : Ascii[n] = c]

\* The byte of an ASCII character.
Ord(c) == Bytes[c]

\* A byte string written as a tuple of one-character strings.
Lit(cs) == [i \in 1..Len(cs) |-> Ord(cs[i])]

\* utf8.RuneError, U+FFFD
RuneError == 65533

\* string(r): the UTF-8 encoding of a rune; a surrogate or a value out of
\* range encodes as U+FFFD.
EncodeRune(r) ==
    IF r < 0 \/ r > 1114111 \/ (r >= 55296 /\ r <= 57343)
      THEN <<239, 191, 189>>
    ELSE IF r < 128 THEN <<r>>
    ELSE IF r < 2048 THEN <<192 + (r \div 64), 128 + (r % 64)>>
    ELSE IF r < 65536
      THEN <<224 + (r \div 4096), 128 + ((r \div 64) % 64), 128 + (r % 64)>>
    ELSE <<240 + (r \div 262144), 128 + ((r \div 4096) % 64),
           128 + ((r \div 64) % 64), 128 + (r % 64)>>

\* Whether byte i of s exists and lies in lo..hi.
ByteIn(s, i, lo, hi) == i <= Len(s) /\ s[i] >= lo /\ s[i] <= hi

\* utf8.DecodeRuneInString(s[i:]), as `for _, r := range s` applies it: the
\* rune at byte i and its width; an invalid or short encoding is
\* (RuneError, 1).
DecodeRune(s, i) ==
    LET b == s[i]
        bad == [r |-> RuneError, w |-> 1]
        cont(j) == ByteIn(s, j, 128, 191)
    IN  IF b < 128 THEN [r |-> b, w |-> 1]
        ELSE IF b >= 194 /\ b <= 223
          THEN IF cont(i + 1)
                 THEN [r |-> (b - 192) * 64 + (s[i + 1] - 128), w |-> 2]
                 ELSE bad
        ELSE IF b >= 224 /\ b <= 239
          THEN IF /\ ByteIn(s, i + 1, IF b = 224 THEN 160 ELSE 128,
                                      IF b = 237 THEN 159 ELSE 191)
                  /\ cont(i + 2)
                 THEN [r |-> (b - 224) * 4096 + (s[i + 1] - 128) * 64
                              + (s[i + 2] - 128), w |-> 3]
                 ELSE bad
        ELSE IF b >= 240 /\ b <= 244
          THEN IF /\ ByteIn(s, i + 1, IF b = 240 THEN 144 ELSE 128,
                                      IF b = 244 THEN 143 ELSE 191)
                  /\ cont(i + 2) /\ cont(i + 3)
                 THEN [r |-> (b - 240) * 262144 + (s[i + 1] - 128) * 4096
                              + (s[i + 2] - 128) * 64 + (s[i + 3] - 128),
                       w |-> 4]
                 ELSE bad
        ELSE bad

\* The runes `for _, r := range s` yields from byte i on.
RECURSIVE RunesFrom(_, _)
RunesFrom(s, i) ==
    IF i > Len(s) THEN <<>>
    ELSE LET d == DecodeRune(s, i) IN <<d.r>> \o RunesFrom(s, i + d.w)

Runes(s) == RunesFrom(s, 1)

\* utf8.ValidString(s): no position decodes to (RuneError, 1).
RECURSIVE ValidFrom(_, _)
ValidFrom(s, i) ==
    IF i > Len(s) THEN TRUE
    ELSE LET d == DecodeRune(s, i)
         IN  ~(d.r = RuneError /\ d.w = 1) /\ ValidFrom(s, i + d.w)

ValidString(s) == ValidFrom(s, 1)

\* The bytes of a sequence of runes.
RECURSIVE EncodeRunes(_)
EncodeRunes(rs) ==
    IF rs = <<>> THEN <<>> ELSE EncodeRune(Head(rs)) \o EncodeRunes(Tail(rs))

----------------------------------------------------------------------------
(* Escape.                                                                 *)

\* Escape's switch with the case for backspace missing.
EscapeRuneNoBackspace(r) ==
    CASE r = Ord("\t") -> Lit(<<"\\", "t">>)
      [] r = Ord("\f") -> Lit(<<"\\", "f">>)
      [] r = Ord("\n") -> Lit(<<"\\", "n">>)
      [] r = Ord("\r") -> Lit(<<"\\", "r">>)
      [] r = Ord("\\") -> Lit(<<"\\", "\\">>)
      [] r = Ord("\"") -> Lit(<<"\\", "\"">>)
      [] OTHER -> EncodeRune(r)

\* The switch of Escape's loop body: what one rune adds to out.
EscapeRune(r) ==
    CASE r = Ord("\t") -> Lit(<<"\\", "t">>)
      [] r = Ord("BS") -> Lit(<<"\\", "b">>)
      [] r = Ord("\f") -> Lit(<<"\\", "f">>)
      [] r = Ord("\n") -> Lit(<<"\\", "n">>)
      [] r = Ord("\r") -> Lit(<<"\\", "r">>)
      [] r = Ord("\\") -> Lit(<<"\\", "\\">>)
      [] r = Ord("\"") -> Lit(<<"\\", "\"">>)
      [] OTHER -> EncodeRune(r)

\* Escape's loop from byte i on, with the output so far.
RECURSIVE EscapeFrom(_, _, _)
EscapeFrom(s, i, acc) ==
    IF i > Len(s) THEN acc
    ELSE LET d == DecodeRune(s, i)
         IN  EscapeFrom(s, i + d.w, acc \o EscapeRune(d.r))

Escape(s) == EscapeFrom(s, 1, <<>>)

----------------------------------------------------------------------------
(* Go values, as tagged pairs.                                             *)
(*   <<"nil", 0>>        the nil interface value                           *)
(*   <<"bool", b>>       a bool                                            *)
(*   <<"num", n>>        a float64 holding the integer n                   *)
(*   <<"numlit", s>>     a float64 decoded from the literal s, which has   *)
(*                       a fraction or an exponent                         *)
(*   <<"str", s>>        a string, s its bytes                             *)
(*   <<"arr", vs>>       a non-nil []any                                   *)
(*   <<"map", f>>        a non-nil map[string]any, f from keys to values   *)
(*   <<"strs", ss>>      a non-nil []string (the type under Array)         *)
(*   <<"nilslice", 0>>   a nil []string                                    *)
(*   <<"struct", fs>>    a struct; fs its fields in declaration order,     *)
(*                       each [k |-> JSON name, v |-> value]               *)
(*   <<"ptr", p>>        a pointer to heap[p]; p = 0 is the nil pointer    *)
(*   <<"chan", 0>>       a channel                                         *)
(*   <<"obj", ms>>       a JSON object on its way into a typed target: its *)
(*                       members [k |-> key, v |-> value] in text order    *)

Tag(v) == v[1]
Val(v) == v[2]

\* bytes a < b in Go's string order
RECURSIVE Less(_, _)
Less(a, b) ==
    IF b = <<>> THEN FALSE
    ELSE IF a = <<>> THEN TRUE
    ELSE IF Head(a) # Head(b) THEN Head(a) < Head(b)
    ELSE Less(Tail(a), Tail(b))

\* a map's keys as if the mapEncoder sorted them from the last to the first
RECURSIVE KeysDescending(_)
KeysDescending(ks) ==
    IF ks = {} THEN <<>>
    ELSE LET m == CHOOSE k \in ks : \A o \in ks \ {k} : Less(o, k)
         IN  <<m>> \o KeysDescending(ks \ {m})

\* sort.Slice of a map's keys, as encoding/json's mapEncoder orders them
RECURSIVE SortedKeys(_)
SortedKeys(ks) ==
    IF ks = {} THEN <<>>
    ELSE LET m == CHOOSE k \in ks : \A o \in ks \ {k} : Less(k, o)
         IN  <<m>> \o SortedKeys(ks \ {m})

----------------------------------------------------------------------------
(* encoding/json: the encoder behind json.Marshal and Encoder.Encode.      *)

HexDigit(n) == IF n < 10 THEN Ord("0") + n ELSE Ord("a") + (n - 10)

\* \u00XX for a byte
U00(b) == Lit(<<"\\", "u", "0", "0">>) \o <<HexDigit(b \div 16), HexDigit(b % 16)>>

\* \uXXXX for a rune of the basic plane
UXXXX(r) ==
    Lit(<<"\\", "u">>) \o <<HexDigit(r \div 4096), HexDigit((r \div 256) % 16),
                            HexDigit((r \div 16) % 16), HexDigit(r % 16)>>

\* safeSet / htmlSafeSet: whether an ASCII byte is copied as it is
SafeByte(b, escapeHTML) ==
    /\ b >= 32
    /\ b # Ord("\"")
    /\ b # Ord("\\")
    /\ escapeHTML => b \notin {Ord("<"), Ord(">"), Ord("&")}

\* encodeState.string's body from byte i on (go1.18: \b and \f have no
\* short form)
RECURSIVE EncStringFrom(_, _, _)
EncStringFrom(s, i, escapeHTML) ==
    IF i > Len(s) THEN <<>>
    ELSE LET b == s[i] IN
         IF b < 128
           THEN (IF SafeByte(b, escapeHTML) THEN <<b>>
                 ELSE IF b = Ord("\\") \/ b = Ord("\"") THEN <<Ord("\\"), b>>
                 ELSE IF b = Ord("\n") THEN Lit(<<"\\", "n">>)
                 ELSE IF b = Ord("\r") THEN Lit(<<"\\", "r">>)
                 ELSE IF b = Ord("\t") THEN Lit(<<"\\", "t">>)
                 ELSE U00(b))
                \o EncStringFrom(s, i + 1, escapeHTML)
           ELSE LET d == DecodeRune(s, i) IN
                (IF d.r = RuneError /\ d.w = 1 THEN UXXXX(RuneError)
                 ELSE IF d.r = 8232 \/ d.r = 8233 THEN UXXXX(d.r)
                 ELSE SubSeq(s, i, i + d.w - 1))
                \o EncStringFrom(s, i + d.w, escapeHTML)

\* encodeState.string: a quoted JSON string
EncString(s, escapeHTML) ==
    <<Ord("\"")>> \o EncStringFrom(s, 1, escapeHTML) \o <<Ord("\"")>>

\* strconv's decimal digits of n >= 0
RECURSIVE Digits(_)
Digits(n) ==
    IF n < 10 THEN <<Ord("0") + n>> ELSE Digits(n \div 10) \o <<Ord("0") + (n % 10)>>

\* floatEncoder for a float64 with an integer value (format 'f')
EncNumber(n) == IF n < 0 THEN <<Ord("-")>> \o Digits(0 - n) ELSE Digits(n)

NullLit == Lit(<<"n", "u", "l", "l">>)
TrueLit == Lit(<<"t", "r", "u", "e">>)
FalseLit == Lit(<<"f", "a", "l", "s", "e">>)

\* The results of an encoding: the error ("" is nil) and the bytes.
EncOk(b) == [e |-> "", b |-> b]
EncErr(e) == [e |-> e, b |-> <<>>]

\* reflectValue: the encoding of v, with the structures h that pointers
\* lead to and the pointers seen on the way down (ptrSeen).
RECURSIVE Enc(_, _, _, _), EncElems(_, _, _, _, _), EncFields(_, _, _, _, _),
          EncEntries(_, _, _, _, _, _)
Enc(v, h, escapeHTML, seen) ==
    CASE Tag(v) = "nil" -> EncOk(NullLit)
      [] Tag(v) = "nilslice" -> EncOk(NullLit)
      [] Tag(v) = "bool" -> EncOk(IF Val(v) THEN TrueLit ELSE FalseLit)
      [] Tag(v) = "num" -> EncOk(EncNumber(Val(v)))
      [] Tag(v) = "numlit" -> EncOk(Val(v))
      [] Tag(v) = "str" -> EncOk(EncString(Val(v), escapeHTML))
      [] Tag(v) = "strs" ->
           EncElems([i \in 1..Len(Val(v)) |-> <<"str", Val(v)[i]>>], 1, h,
                    escapeHTML, seen)
      [] Tag(v) = "arr" -> EncElems(Val(v), 1, h, escapeHTML, seen)
      [] Tag(v) = "map" ->
           EncEntries(Val(v), SortedKeys(DOMAIN Val(v)), 1, h, escapeHTML, seen)
      [] Tag(v) = "struct" -> EncFields(Val(v), 1, h, escapeHTML, seen)
      [] Tag(v) = "ptr" ->
           IF Val(v) = 0 THEN EncOk(NullLit)
           ELSE IF Val(v) \in seen
             THEN EncErr("json: unsupported value: encountered a cycle")
           ELSE Enc(h[Val(v)], h, escapeHTML, seen \cup {Val(v)})
      [] Tag(v) = "chan" -> EncErr("json: unsupported type: chan int")

\* arrayEncoder: elements i.. of vs with the brackets and commas
EncElems(vs, i, h, escapeHTML, seen) ==
    IF i > Len(vs) THEN EncOk(IF i = 1 THEN Lit(<<"[", "]">>) ELSE Lit(<<"]">>))
    ELSE LET x == Enc(vs[i], h, escapeHTML, seen)
             rest == EncElems(vs, i + 1, h, escapeHTML, seen)
         IN  IF x.e # "" THEN x
             ELSE IF rest.e # "" THEN rest
             ELSE EncOk(<<IF i = 1 THEN Ord("[") ELSE Ord(",")>> \o x.b \o rest.b)

\* structEncoder: fields i.. of fs, in declaration order
EncFields(fs, i, h, escapeHTML, seen) ==
    IF i > Len(fs) THEN EncOk(IF i = 1 THEN Lit(<<"{", "}">>) ELSE Lit(<<"}">>))
    ELSE LET x == Enc(fs[i].v, h, escapeHTML, seen)
             rest == EncFields(fs, i + 1, h, escapeHTML, seen)
         IN  IF x.e # "" THEN x
             ELSE IF rest.e # "" THEN rest
             ELSE EncOk(<<IF i = 1 THEN Ord("{") ELSE Ord(",")>>
                        \o EncString(fs[i].k, escapeHTML) \o <<Ord(":")>>
                        \o x.b \o rest.b)

\* mapEncoder: the entries of f for the sorted keys i.. of ks
EncEntries(f, ks, i, h, escapeHTML, seen) ==
    IF i > Len(ks) THEN EncOk(IF i = 1 THEN Lit(<<"{", "}">>) ELSE Lit(<<"}">>))
    ELSE LET x == Enc(f[ks[i]], h, escapeHTML, seen)
             rest == EncEntries(f, ks, i + 1, h, escapeHTML, seen)
         IN  IF x.e # "" THEN x
             ELSE IF rest.e # "" THEN rest
             ELSE EncOk(<<IF i = 1 THEN Ord("{") ELSE Ord(",")>>
                        \o EncString(ks[i], escapeHTML) \o <<Ord(":")>>
                        \o x.b \o rest.b)

----------------------------------------------------------------------------
(* encoding/json: the scanner and decoder behind json.Unmarshal.           *)

IsSpace(b) == b \in {Ord(" "), Ord("\t"), Ord("\r"), Ord("\n")}
IsDigit(b) == b >= Ord("0") /\ b <= Ord("9")

\* the first position from i on that holds no white space
RECURSIVE SkipSpace(_, _)
SkipSpace(s, i) ==
    IF i <= Len(s) /\ IsSpace(s[i]) THEN SkipSpace(s, i + 1) ELSE i

\* the first position from i on that holds no digit
RECURSIVE SkipDigits(_, _)
SkipDigits(s, i) ==
    IF i <= Len(s) /\ IsDigit(s[i]) THEN SkipDigits(s, i + 1) ELSE i

\* whether s holds the bytes w at position i
HasAt(s, i, w) == i + Len(w) - 1 <= Len(s) /\ SubSeq(s, i, i + Len(w) - 1) = w

\* getu4's digit: the value of a hexadecimal digit, -1 for another byte
HexVal(b) ==
    IF IsDigit(b) THEN b - Ord("0")
    ELSE IF b >= Ord("a") /\ b <= Ord("f") THEN b - Ord("a") + 10
    ELSE IF b >= Ord("A") /\ b <= Ord("F") THEN b - Ord("A") + 10
    ELSE 0 - 1

\* getu4: the rune of \uXXXX at position i (the backslash), -1 if it is none
GetU4(s, i) ==
    IF i + 5 > Len(s) \/ s[i] # Ord("\\") \/ s[i + 1] # Ord("u") THEN 0 - 1
    ELSE LET a == HexVal(s[i + 2])
             b == HexVal(s[i + 3])
             c == HexVal(s[i + 4])
             d == HexVal(s[i + 5])
         IN  IF a < 0 \/ b < 0 \/ c < 0 \/ d < 0 THEN 0 - 1
             ELSE a * 4096 + b * 256 + c * 16 + d

\* a parse result: failure, or the value read and the position after it
Fail == [ok |-> FALSE, v |-> <<"nil", 0>>, p |-> 0]
Got(v, p) == [ok |-> TRUE, v |-> v, p |-> p]

\* the value of a decimal literal without sign
RECURSIVE DigitsValue(_, _, _, _)
DigitsValue(s, i, j, acc) ==
    IF i > j THEN acc ELSE DigitsValue(s, i + 1, j, acc * 10 + (s[i] - Ord("0")))

\* The scanner's number states and convertNumber: a number at position i.
ParseNumber(s, i) ==
    LET neg == s[i] = Ord("-")
        a == IF neg THEN i + 1 ELSE i
        b == IF a <= Len(s) /\ s[a] = Ord("0") THEN a + 1 ELSE SkipDigits(s, a)
        hasFrac == b <= Len(s) /\ s[b] = Ord(".")
        c == IF hasFrac THEN SkipDigits(s, b + 1) ELSE b
        hasExp == c <= Len(s) /\ s[c] \in {Ord("e"), Ord("E")}
        d == IF hasExp /\ c + 1 <= Len(s) /\ s[c + 1] \in {Ord("+"), Ord("-")}
               THEN c + 2 ELSE c + 1
        e == IF hasExp THEN SkipDigits(s, d) ELSE c
    IN  IF b = a \/ (hasFrac /\ c = b + 1) \/ (hasExp /\ e = d) THEN Fail
        ELSE IF hasFrac \/ hasExp THEN Got(<<"numlit", SubSeq(s, i, e - 1)>>, e)
        ELSE Got(<<"num", (IF neg THEN 0 - 1 ELSE 1) * DigitsValue(s, a, b - 1, 0)>>, b)

\* unquote's \uXXXX case at position i (the backslash), where r is the rune
\* of the escape and r2 that of an escape following it: a surrogate pair is
\* one rune.
RECURSIVE ParseStringFrom(_, _, _)
ParseEscapedRune(s, i, acc, r, r2) ==
    IF r < 0 THEN Fail
    ELSE IF r >= 55296 /\ r <= 56319 /\ r2 >= 56320 /\ r2 <= 57343
      THEN ParseStringFrom(s, i + 12,
             acc \o EncodeRune(65536 + (r - 55296) * 1024 + (r2 - 56320)))
    ELSE ParseStringFrom(s, i + 6, acc \o EncodeRune(r))

\* unquote's backslash case at position i, c the byte after the backslash
ParseEscape(s, i, acc, c) ==
    IF c \in {Ord("\""), Ord("\\"), Ord("/")} THEN ParseStringFrom(s, i + 2, Append(acc, c))
    ELSE IF c = Ord("u") THEN ParseEscapedRune(s, i, acc, GetU4(s, i), GetU4(s, i + 6))
    ELSE With(CASE c = Ord("b") -> Ord("BS")
                [] c = Ord("f") -> Ord("\f")
                [] c = Ord("n") -> Ord("\n")
                [] c = Ord("r") -> Ord("\r")
                [] c = Ord("t") -> Ord("\t")
                [] OTHER -> 0 - 1,
              LAMBDA e : IF e < 0 THEN Fail
                         ELSE ParseStringFrom(s, i + 2, Append(acc, e)))

\* unquote: the string whose body starts at position i (after the opening
\* quote), with the bytes decoded so far.
ParseStringFrom(s, i, acc) ==
    IF i > Len(s) THEN Fail
    ELSE With(s[i], LAMBDA b :
      IF b = Ord("\"") THEN Got(<<"str", acc>>, i + 1)
      ELSE IF b < 32 THEN Fail
      ELSE IF b = Ord("\\")
        THEN IF i + 1 > Len(s) THEN Fail ELSE ParseEscape(s, i, acc, s[i + 1])
      ELSE IF b < 128 THEN ParseStringFrom(s, i + 1, Append(acc, b))
      ELSE With(DecodeRune(s, i), LAMBDA d :
             ParseStringFrom(s, i + d.w, acc \o EncodeRune(d.r))))

\* d.value: the value at position i (white space skipped).  Into an empty
\* interface (raw = FALSE) an array is a []any and an object a
\* map[string]any; for a typed target (raw = TRUE) an object is
\* <<"obj", ms>>, its members [k |-> key, v |-> value] in the order of the
\* text.
RECURSIVE ParseValue(_, _, _), ParseElems(_, _, _, _), ParseMembers(_, _, _, _)
ParseValue(s, i0, raw) ==
    With(SkipSpace(s, i0), LAMBDA i :
    IF i > Len(s) THEN Fail
    ELSE With(s[i], LAMBDA b :
      IF b = Ord("\"") THEN ParseStringFrom(s, i + 1, <<>>)
      ELSE IF b = Ord("-") \/ IsDigit(b) THEN ParseNumber(s, i)
      ELSE IF HasAt(s, i, NullLit) THEN Got(<<"nil", 0>>, i + 4)
      ELSE IF HasAt(s, i, TrueLit) THEN Got(<<"bool", TRUE>>, i + 4)
      ELSE IF HasAt(s, i, FalseLit) THEN Got(<<"bool", FALSE>>, i + 5)
      ELSE IF b = Ord("[") THEN
        With(SkipSpace(s, i + 1), LAMBDA j :
          IF j <= Len(s) /\ s[j] = Ord("]") THEN Got(<<"arr", <<>> >>, j + 1)
          ELSE ParseElems(s, j, <<>>, raw))
      ELSE IF b = Ord("{") THEN
        With(SkipSpace(s, i + 1), LAMBDA j :
          IF j <= Len(s) /\ s[j] = Ord("}")
            THEN Got(<<IF raw THEN "obj" ELSE "map", <<>> >>, j + 1)
          ELSE ParseMembers(s, j, <<>>, raw))
      ELSE Fail))

\* the elements of an array from position i on, with those read so far
ParseElems(s, i, acc, raw) ==
    With(ParseValue(s, i, raw), LAMBDA x :
    With(SkipSpace(s, x.p), LAMBDA j :
      IF ~x.ok \/ j > Len(s) THEN Fail
      ELSE IF s[j] = Ord(",") THEN ParseElems(s, j + 1, Append(acc, x.v), raw)
      ELSE IF s[j] = Ord("]") THEN Got(<<"arr", Append(acc, x.v)>>, j + 1)
      ELSE Fail))

\* the members of an object from position i on, with those read so far (in
\* a map a repeated key keeps its last value)
ParseMembers(s, i0, acc, raw) ==
    With(SkipSpace(s, i0), LAMBDA i :
    With(IF i <= Len(s) /\ s[i] = Ord("\"")
           THEN ParseStringFrom(s, i + 1, <<>>) ELSE Fail, LAMBDA k :
    With(SkipSpace(s, k.p), LAMBDA c :
    With(ParseValue(s, c + 1, raw), LAMBDA x :
    With(SkipSpace(s, x.p), LAMBDA j :
    With(IF raw THEN Append(acc, [k |-> Val(k.v), v |-> x.v])
         ELSE [q \in (DOMAIN acc) \cup {Val(k.v)} |->
                 IF q = Val(k.v) THEN x.v ELSE acc[q]], LAMBDA m :
      IF ~k.ok \/ c > Len(s) \/ s[c] # Ord(":") THEN Fail
      ELSE IF ~x.ok \/ j > Len(s) THEN Fail
      ELSE IF s[j] = Ord(",") THEN ParseMembers(s, j + 1, m, raw)
      ELSE IF s[j] = Ord("}") THEN Got(<<IF raw THEN "obj" ELSE "map", m>>, j + 1)
      ELSE Fail))))))

\* checkValid followed by the decoding into an empty interface: the whole
\* text is one JSON value, with white space around it at most
Parse(s) ==
    With(ParseValue(s, 1, FALSE), LAMBDA x :
      IF x.ok /\ SkipSpace(s, x.p) > Len(s) THEN x ELSE Fail)

\* the same for a typed target
ParseRaw(s) ==
    With(ParseValue(s, 1, TRUE), LAMBDA x :
      IF x.ok /\ SkipSpace(s, x.p) > Len(s) THEN x ELSE Fail)

\* checkValid: whether the text is syntactically valid JSON
Valid(s) == Parse(s).ok

----------------------------------------------------------------------------
(* encoding/json: Compact and Indent, which rewrite valid JSON text.       *)

\* A Go loop `for i := lo; i <= hi; i++ { st = Body(st, i) }` that ends early
\* once st.stop holds (a break).  The range is halved so that the evaluation
\* nests to its logarithm only; the turns run in order, lo first.
RECURSIVE Loop(_, _, _, _)
Loop(Body(_, _), st, lo, hi) ==
    IF lo > hi THEN st
    ELSE IF lo = hi THEN Body(st, lo)
    ELSE LET mid == (lo + hi) \div 2
             left == Loop(Body, st, lo, mid)
         IN  IF left.stop THEN left ELSE Loop(Body, left, mid + 1, hi)

\* newline, prefix and depth copies of indent
RECURSIVE Repeat(_, _)
Repeat(w, n) == IF n <= 0 THEN <<>> ELSE w \o Repeat(w, n - 1)

AppendNewline(dst, prefix, indent, depth) ==
    dst \o <<Ord("\n")>> \o prefix \o Repeat(indent, depth)

\* One turn of appendIndent's loop, for the byte c.  st holds the scanner's
\* place (inStr: inside a string, esc: after a backslash in it) and the
\* loop's needIndent, depth and dst.  A byte inside a string is scanContinue
\* and is copied as it is; white space is skipped before and inside the
\* value (scanSkipSpace) and copied after its end (scanEnd).
IndentStep(st, c, prefix, indent) ==
    IF st.inStr
      THEN [st EXCEPT !.inStr = st.esc \/ c # Ord("\""),
                      !.esc = ~st.esc /\ c = Ord("\\"),
                      !.dst = Append(st.dst, c)]
    ELSE IF IsSpace(c)
      THEN IF st.dst # <<>> /\ st.depth = 0 /\ ~st.needIndent
             THEN [st EXCEPT !.dst = Append(st.dst, c)]
             ELSE st
    ELSE
      LET closing == c \in {Ord("}"), Ord("]")}
          opened == st.needIndent /\ ~closing
          depth == IF opened THEN st.depth + 1 ELSE st.depth
          dst == IF opened THEN AppendNewline(st.dst, prefix, indent, depth)
                 ELSE st.dst
          needIndent == st.needIndent /\ ~opened
          next(n, d, out) ==
              [stop |-> FALSE, inStr |-> c = Ord("\""), esc |-> FALSE,
               needIndent |-> n, depth |-> d, dst |-> out]
      IN  IF c \in {Ord("{"), Ord("[")} THEN next(TRUE, depth, Append(dst, c))
          ELSE IF c = Ord(",")
            THEN next(needIndent, depth,
                      AppendNewline(Append(dst, c), prefix, indent, depth))
          ELSE IF c = Ord(":")
            THEN next(needIndent, depth, dst \o <<c, Ord(" ")>>)
          ELSE IF closing
            THEN IF needIndent THEN next(FALSE, depth, Append(dst, c))
                 ELSE next(FALSE, depth - 1,
                           Append(AppendNewline(dst, prefix, indent, depth - 1), c))
          ELSE next(needIndent, depth, Append(dst, c))

\* json.Indent of valid JSON text: appendIndent's loop over the bytes of src
Indent(src, prefix, indent) ==
    Loop(LAMBDA st, i : IndentStep(st, src[i], prefix, indent),
         [stop |-> FALSE, inStr |-> FALSE, esc |-> FALSE, needIndent |-> FALSE,
          depth |-> 0, dst |-> <<>>],
         1, Len(src)).dst

\* One turn of compact's loop, for byte i of src: white space outside
\* strings is dropped and, with escape, <, > and & and U+2028, U+2029 are
\* written as \u escapes.  skip counts the bytes of a U+2028 or U+2029 still
\* to pass over.
CompactStep(st, src, i, escape) ==
    LET c == src[i]
        inStr == IF st.inStr THEN st.esc \/ c # Ord("\"") ELSE c = Ord("\"")
        esc == st.inStr /\ ~st.esc /\ c = Ord("\\")
    IN  IF st.skip > 0 THEN [st EXCEPT !.skip = st.skip - 1]
        ELSE IF ~st.inStr /\ IsSpace(c) THEN st
        ELSE IF escape /\ c \in {Ord("<"), Ord(">"), Ord("&")}
          THEN [st EXCEPT !.inStr = inStr, !.esc = esc, !.dst = st.dst \o U00(c)]
        ELSE IF escape /\ c = 226 /\ i + 2 <= Len(src) /\ src[i + 1] = 128
                /\ src[i + 2] \in {168, 169}
          THEN [st EXCEPT !.inStr = inStr, !.esc = esc, !.skip = 2,
                          !.dst = st.dst \o UXXXX(8192 + (src[i + 2] - 128))]
        ELSE [st EXCEPT !.inStr = inStr, !.esc = esc, !.dst = Append(st.dst, c)]

\* compact: the text rewritten, or the scanner's error for invalid JSON
Compact(src, escape) ==
    IF Valid(src)
      THEN EncOk(Loop(LAMBDA st, i : CompactStep(st, src, i, escape),
                      [stop |-> FALSE, inStr |-> FALSE, esc |-> FALSE,
                       skip |-> 0, dst |-> <<>>],
                      1, Len(src)).dst)
    ELSE EncErr("json: invalid character")

\* strings.TrimSpace, for the white space JSON text can carry
RECURSIVE TrimRight(_)
TrimRight(s) ==
    IF s # <<>> /\ IsSpace(s[Len(s)]) THEN TrimRight(SubSeq(s, 1, Len(s) - 1))
    ELSE s

TrimSpace(s) == TrimRight(SubSeq(s, SkipSpace(s, 1), Len(s)))

----------------------------------------------------------------------------
(* The package's functions and the receivers' methods.                     *)
(* A receiver is [kind |-> "Array" | "Object" | "This", v |-> value]:      *)
(* the slice of an Array, or the field This of an Object or a This.        *)

\* the "  " that JSONL passes as prefix and as indent
TwoSpaces == Lit(<<" ", " ">>)

\* encoding/json's Marshal: HTML escapes on, nil bytes on error
StdMarshal(v, h) == Enc(v, h, TRUE, {})

\* What json.Marshal makes of an Object without its MarshalJSON method: the
\* struct with its field This.
MarshalJSONAsStruct(s, h) ==
    StdMarshal(<<"struct", <<[k |-> Lit(<<"T", "h", "i", "s">>), v |-> s.v]>> >>, h)

\* Object.MarshalJSON: json.Marshal(s.This)
MarshalJSON(s, h) == StdMarshal(s.v, h)

\* encoding/json's marshalerEncoder for an Object: MarshalJSON, then
\* compact with HTML escapes; an error is wrapped in a MarshalerError.
StdMarshalObject(s, h) ==
    With(MarshalJSON(s, h), LAMBDA m :
    With(Compact(m.b, TRUE), LAMBDA c :
      IF m.e # "" \/ c.e # ""
        THEN EncErr("json: error calling MarshalJSON for type json.Object")
        ELSE c))

\* encoding/json's Marshal of the receiver itself
StdMarshalRecv(s, h) ==
    IF s.kind = "Object" THEN StdMarshalObject(s, h) ELSE StdMarshal(s.v, h)

\* encoding/json's MarshalIndent of the receiver: Marshal, then Indent
StdMarshalIndentRecv(s, h, prefix, indent) ==
    With(StdMarshalRecv(s, h), LAMBDA m :
      IF m.e # "" THEN m ELSE EncOk(Indent(m.b, prefix, indent)))

\* Encoder.Encode into a buffer: nothing on error, else the text (indented
\* if SetIndent was called) and a newline
Encode(v, h, escapeHTML, indented, prefix, indent) ==
    With(Enc(v, h, escapeHTML, {}), LAMBDA m :
    With(m.b \o <<Ord("\n")>>, LAMBDA b :
      IF m.e # "" THEN m
      ELSE EncOk(IF indented THEN Indent(b, prefix, indent) ELSE b)))

\* Marshal: Encode without HTML escapes, the buffer trimmed
Marshal(v, h) ==
    With(Encode(v, h, FALSE, FALSE, <<>>, <<>>), LAMBDA m :
      [e |-> m.e, b |-> TrimSpace(m.b)])

\* MarshalIndent: Encode without HTML escapes and with SetIndent(a, b)
MarshalIndent(v, h, a, b) ==
    With(Encode(v, h, FALSE, TRUE, a, b), LAMBDA m :
      [e |-> m.e, b |-> TrimSpace(m.b)])

\* JSON(): json.Marshal(s) for Array and Object, json.Marshal(s.This) for This
JSON(s, h) ==
    IF s.kind = "This" THEN StdMarshal(s.v, h) ELSE StdMarshalRecv(s, h)

\* JSONL() as if it passed no prefix: json.MarshalIndent(s, "", "  ")
JSONLNoPrefix(s, h) == StdMarshalIndentRecv(s, h, <<>>, TwoSpaces)

\* JSONL(): json.MarshalIndent(s, "  ", "  ")
JSONL(s, h) == StdMarshalIndentRecv(s, h, TwoSpaces, TwoSpaces)

\* fmt.Print(s): one write of s, without a line terminator
PrintBare(s) == s

\* fmt.Println(s): one write of s and a line terminator
Println(s) == s \o <<Ord("\n")>>

\* log.Print(x): one record, holding a string's bytes or an error's message
LogPrint(x) == <<x>>

\* String() as if it dropped the error instead of logging it
StringSilent(s, h) ==
    With(JSON(s, h), LAMBDA m : [s |-> m.b, e |-> m.e, log |-> <<>>])

\* String(): JSON(), the error logged if there is one; s is the string
\* returned, e the error met and log the records written
String(s, h) ==
    With(JSON(s, h), LAMBDA m :
      [s |-> m.b, e |-> m.e,
       log |-> IF m.e # "" THEN LogPrint(<<"error", m.e>>) ELSE <<>>])

\* StringLong(): JSONL(), the error logged if there is one
StringLong(s, h) ==
    With(JSONL(s, h), LAMBDA m :
      [s |-> m.b, e |-> m.e,
       log |-> IF m.e # "" THEN LogPrint(<<"error", m.e>>) ELSE <<>>])

\* bufio's dropCR: a line without its trailing \r
DropCR(l) ==
    IF l # <<>> /\ l[Len(l)] = Ord("\r") THEN SubSeq(l, 1, Len(l) - 1) ELSE l

\* the whole text as one item, split nowhere
OneItem(s) == <<s>>

\* to.Lines: bufio.Scanner's ScanLines over the string; a line ends at \n,
\* its trailing \r is dropped, and a last line without \n counts if it is
\* not empty
Lines(s) ==
    With(Loop(LAMBDA st, i :
                IF s[i] = Ord("\n")
                  THEN [st EXCEPT !.lines = Append(st.lines, DropCR(st.cur)),
                                  !.cur = <<>>]
                  ELSE [st EXCEPT !.cur = Append(st.cur, s[i])],
              [stop |-> FALSE, lines |-> <<>>, cur |-> <<>>], 1, Len(s)),
         LAMBDA end :
           IF end.cur = <<>> THEN end.lines
           ELSE Append(end.lines, DropCR(end.cur)))

\* each.Log: log.Print of every item, in order
RECURSIVE EachLog(_)
EachLog(set) ==
    IF set = <<>> THEN <<>>
    ELSE LogPrint(<<"text", Head(set)>>) \o EachLog(Tail(set))

----------------------------------------------------------------------------
(* encoding/json: decoding into a typed target.                            *)

\* the errors json.Unmarshal returns: a *SyntaxError, an
\* *UnmarshalTypeError, an *InvalidUnmarshalError
SyntaxError == "json: invalid JSON text"
UnmarshalTypeError == "json: cannot unmarshal into Go value"
InvalidUnmarshalError == "json: Unmarshal(nil or non-pointer)"

\* the folding of ASCII letters by which the decoder matches a key to a
\* field name when no name is equal to it
Lower(b) == IF b >= Ord("A") /\ b <= Ord("Z") THEN b + 32 ELSE b
EqualFold(a, b) ==
    Len(a) = Len(b) /\ \A i \in 1..Len(a) : Lower(a[i]) = Lower(b[i])

\* d.object's search: the field of fs that key names, the one with that
\* name or else the first whose name folds to it; 0 if there is none
FieldOf(fs, key) ==
    IF \E i \in 1..Len(fs) : fs[i].k = key
      THEN CHOOSE i \in 1..Len(fs) : fs[i].k = key
    ELSE IF \E i \in 1..Len(fs) : EqualFold(fs[i].k, key)
      THEN CHOOSE i \in 1..Len(fs) :
             EqualFold(fs[i].k, key) /\ \A j \in 1..(i - 1) : ~EqualFold(fs[j].k, key)
    ELSE 0

\* StoreField as if null stored the zero value, the empty string
StoreFieldZeroes(old, x) ==
    CASE Tag(old) = "str" ->
           IF Tag(x) = "str" THEN [v |-> x, e |-> ""]
           ELSE IF Tag(x) = "nil" THEN [v |-> <<"str", <<>> >>, e |-> ""]
           ELSE [v |-> old, e |-> UnmarshalTypeError]

\* The JSON value x stored into a field of type string that holds old: a
\* string is stored, null leaves the field alone, and anything else is an
\* UnmarshalTypeError that leaves it alone.
StoreField(old, x) ==
    CASE Tag(old) = "str" ->
           IF Tag(x) = "str" THEN [v |-> x, e |-> ""]
           ELSE IF Tag(x) = "nil" THEN [v |-> old, e |-> ""]
           ELSE [v |-> old, e |-> UnmarshalTypeError]

\* d.object into a struct, from member i on: a key that names no field is
\* skipped; after an UnmarshalTypeError the decoding goes on and the first
\* error is the one returned.
RECURSIVE StoreMembers(_, _, _, _)
StoreMembers(fs, ms, i, e) ==
    IF i > Len(ms) THEN [v |-> <<"struct", fs>>, e |-> e]
    ELSE With(FieldOf(fs, ms[i].k), LAMBDA f :
           IF f = 0 THEN StoreMembers(fs, ms, i + 1, e)
           ELSE With(StoreField(fs[f].v, ms[i].v), LAMBDA r :
                  StoreMembers([fs EXCEPT ![f].v = r.v], ms, i + 1,
                               IF e = "" THEN r.e ELSE e)))

\* d.value into a struct: an object fills its fields, null leaves it alone,
\* and any other JSON value is an UnmarshalTypeError.
StoreStruct(old, x) ==
    IF Tag(x) = "obj" THEN StoreMembers(Val(old), Val(x), 1, "")
    ELSE IF Tag(x) = "nil" THEN [v |-> old, e |-> ""]
    ELSE [v |-> old, e |-> UnmarshalTypeError]

\* json.Unmarshal(buf, data): checkValid, then the decoding into what the
\* pointer data leads to.  The result is the heap after it and the error.
UnmarshalPtr(buf, data, h) ==
    With(ParseRaw(buf), LAMBDA x :
      IF ~x.ok THEN [h |-> h, e |-> SyntaxError]
      ELSE IF Tag(data) # "ptr" \/ Val(data) = 0
        THEN [h |-> h, e |-> InvalidUnmarshalError]
      ELSE With(StoreStruct(h[Val(data)], x.v), LAMBDA r :
             [h |-> [h EXCEPT ![Val(data)] = r.v], e |-> r.e]))

\* UnmarshalJSON: json.Unmarshal(b, &s.This).  An interface that holds a
\* non-nil pointer is decoded into what the pointer leads to, unless the
\* text is null; any other interface gets the decoded value.  The result is
\* the field This, the heap and the error.
UnmarshalThis(buf, v, h) ==
    IF ~Valid(buf) THEN [v |-> v, h |-> h, e |-> SyntaxError]
    ELSE IF Tag(v) = "ptr" /\ Val(v) # 0 /\ Tag(Parse(buf).v) # "nil"
      THEN With(UnmarshalPtr(buf, v, h), LAMBDA r : [v |-> v, h |-> r.h, e |-> r.e])
    ELSE [v |-> Parse(buf).v, h |-> h, e |-> ""]

----------------------------------------------------------------------------
(* Req.                                                                    *)

\* url.Values: nil, or pairs [k |-> key, v |-> value] sorted by key
NilValues == <<"nilvalues", 0>>

\* url.QueryEscape of ASCII text
RECURSIVE QueryEscape(_)
QueryEscape(t) ==
    IF t = <<>> THEN <<>>
    ELSE With(Head(t), LAMBDA b :
           (IF \/ (b >= Ord("a") /\ b <= Ord("z")) \/ (b >= Ord("A") /\ b <= Ord("Z"))
               \/ IsDigit(b) \/ b \in {Ord("-"), Ord("_"), Ord("."), Ord("~")}
              THEN <<b>>
            ELSE IF b = Ord(" ") THEN <<Ord("+")>>
            ELSE <<Ord("%"), HexDigit(b \div 16) - (IF b \div 16 > 9 THEN 32 ELSE 0),
                   HexDigit(b % 16) - (IF b % 16 > 9 THEN 32 ELSE 0)>>)
           \o QueryEscape(Tail(t)))

\* Values.Encode: key=value joined by &, nothing for nil
RECURSIVE EncodePairs(_, _)
EncodePairs(ps, i) ==
    IF i > Len(ps) THEN <<>>
    ELSE (IF i > 1 THEN <<Ord("&")>> ELSE <<>>)
         \o QueryEscape(ps[i].k) \o <<Ord("=")>> \o QueryEscape(ps[i].v)
         \o EncodePairs(ps, i + 1)

ValuesEncode(vs) == IF vs = NilValues THEN <<>> ELSE EncodePairs(vs, 1)

\* http.NewRequest's check of the method: empty (it stands for GET) or made
\* of token characters
ValidMethod(method) ==
    \A i \in 1..Len(method) :
        \/ (method[i] >= Ord("a") /\ method[i] <= Ord("z"))
        \/ (method[i] >= Ord("A") /\ method[i] <= Ord("Z"))
        \/ IsDigit(method[i])
        \/ method[i] \in {Ord("!"), Ord("#"), Ord("$"), Ord("%"), Ord("&"),
                          Ord("'"), Ord("*"), Ord("+"), Ord("-"), Ord("."),
                          Ord("^"), Ord("_"), 96, Ord("|"), Ord("~")}

\* url.Parse's check for control characters, the one way a URL fails to
\* parse here
ValidURL(u) == \A i \in 1..Len(u) : u[i] >= 32 /\ u[i] # 127

\* fmt.Errorf(format) without operands: %% is a percent sign, a verb after
\* flags and digits is reported as missing, and a lone % at the end as
\* having no verb.
RECURSIVE Errorf(_, _), ErrorfVerb(_, _)
Errorf(f, i) ==
    IF i > Len(f) THEN <<>>
    ELSE IF f[i] # Ord("%") THEN <<f[i]>> \o Errorf(f, i + 1)
    ELSE ErrorfVerb(f, i + 1)

ErrorfVerb(f, i) ==
    IF i > Len(f)
      THEN Lit(<<"%", "!", "(", "N", "O", "V", "E", "R", "B", ")">>)
    ELSE IF IsDigit(f[i]) \/ f[i] \in {Ord("+"), Ord("-"), Ord("#"), Ord(" "), Ord(".")}
      THEN ErrorfVerb(f, i + 1)
    ELSE IF f[i] = Ord("%") THEN <<Ord("%")>> \o Errorf(f, i + 1)
    ELSE Lit(<<"%", "!">>) \o <<f[i]>>
           \o Lit(<<"(", "M", "I", "S", "S", "I", "N", "G", ")">>)
           \o Errorf(f, i + 1)

\* whether http.NewRequest(method, url + "?" + qs.Encode(), ...) succeeds
Builds(rq) ==
    ValidMethod(rq.method) /\ ValidURL(rq.url \o <<Ord("?")>> \o ValuesEncode(rq.qs))

\* Req(method, url, qs, body, data) for the request rq, when the client and
\* the server answer net: [kind |-> "fail"] is an error of Client.Do, else
\* net holds the status code, the status text, the body and whether the
\* body can be read.  The result: the error (e; msg its text when it is the
\* status), the heap, the HTTP calls made and whether Req panics, which it
\* does on req.Header.Add when the request is nil and body is not.
Req(rq, net, h) ==
    LET result(e, msg, heapAfter, n, panic) ==
            [e |-> e, msg |-> msg, h |-> heapAfter, sent |-> n, panic |-> panic]
    IN  IF ~Builds(rq) /\ rq.body # NilValues
          THEN result("", <<>>, h, 0, TRUE)
        ELSE IF ~Builds(rq) THEN result("net/http: invalid request", <<>>, h, 0, FALSE)
        ELSE IF net.kind = "fail" THEN result("Client.Do failed", <<>>, h, 1, FALSE)
        ELSE IF ~(200 <= net.code /\ net.code < 300)
          THEN result("status", Errorf(net.status, 1), h, 1, FALSE)
        ELSE IF ~net.readOk THEN result("io.ReadAll failed", <<>>, h, 1, FALSE)
        ELSE With(UnmarshalPtr(net.body, rq.data, h), LAMBDA r :
               result(r.e, <<>>, r.h, 1, FALSE))

----------------------------------------------------------------------------
(* The values the model draws its inputs from.                             *)

Str(rs) == <<"str", EncodeRunes(rs)>>
Nil == <<"nil", 0>>

\* The characters of Escape's inputs: the seven it rewrites, the characters
\* other encoders escape, a control character, ASCII letters, and characters
\* of two, three and four bytes.
EscapeRunes ==
    {Ord("\t"), Ord("BS"), Ord("\f"), Ord("\n"), Ord("\r"), Ord("\\"), Ord("\""),
     Ord("<"), Ord(">"), Ord("&"), Ord("'"), Ord("/"), Ord("n"), 1, 1076, 8364, 128162}

\* The inputs of Escape: the UTF-8 text of up to MaxLen characters, and the
\* same with a byte that is no UTF-8 (0xFF) in front.
EscapeInputs ==
    LET texts == {EncodeRunes(rs) : rs \in UNION {[1..n -> EscapeRunes] : n \in 0..MaxLen}}
    IN  texts \cup {<<255>> \o t : t \in {EncodeRunes(rs) : rs \in UNION {[1..n -> EscapeRunes] : n \in 0..1}}}

\* string leaves: empty, plain, HTML characters, characters with and without
\* a short escape, a control character, multi-byte characters, U+2028
StrLeaves ==
    {Str(<<>>), Str(Lit(<<"f", "o", "o">>)), Str(Lit(<<"b", "a", "r">>)),
     Str(Lit(<<"<", "&", ">">>)), Str(Lit(<<"BS", "\f">>)),
     Str(Lit(<<"\n", "\t", "\r">>)), Str(Lit(<<"\"", "\\", "/">>)), Str(<<1>>),
     Str(<<1076, 128162>>), Str(<<8232>>), Str(Lit(<<"'", " ", "[">>))}

NumLeaves == {<<"num", n>> : n \in {0, 0 - 1, 7, 12, 0 - 305}}

Leaves == {Nil, <<"bool", TRUE>>, <<"bool", FALSE>>} \cup NumLeaves \cup StrLeaves

\* a few leaves, for the structures with two members
FewLeaves == {Nil, <<"bool", TRUE>>, <<"num", 12>>, Str(Lit(<<"f", "o", "o">>)),
              Str(Lit(<<"<", "&", ">">>))}

Keys == {Lit(<<"a">>), Lit(<<"b">>), Lit(<<"<", "a", ">">>), <<>>}

\* a map with one entry, and with two
Map1(k, x) == <<"map", [q \in {k} |-> x]>>
Map2(k, x, l, y) == <<"map", [q \in {k, l} |-> IF q = k THEN x ELSE y]>>

\* []any and map[string]any values with leaves as members
FlatValues ==
    {<<"arr", <<>> >>, <<"map", <<>> >>}
      \cup {<<"arr", <<x>> >> : x \in Leaves}
      \cup {<<"arr", <<x, y>> >> : x \in FewLeaves, y \in FewLeaves}
      \cup {Map1(k, x) : k \in Keys, x \in FewLeaves}
      \cup {Map2(Lit(<<"b">>), x, Lit(<<"a">>), y) : x \in FewLeaves, y \in FewLeaves}

\* values nested two and three levels deep
Inner ==
    {<<"arr", <<>> >>, <<"map", <<>> >>, <<"arr", <<Str(Lit(<<"f", "o", "o">>))>> >>,
     Map1(Lit(<<"a">>), <<"num", 12>>),
     <<"arr", <<Map1(Lit(<<"b">>), <<"arr", <<Nil>> >>)>> >>}

NestedValues ==
    {<<"arr", <<x, y>> >> : x \in Inner, y \in Inner}
      \cup {Map2(Lit(<<"b">>), x, Lit(<<"a">>), y) : x \in Inner, y \in Inner}

\* the values decoding into an empty interface can yield
GenericValues == Leaves \cup FlatValues \cup NestedValues

\* the struct FooBar{Foo, Bar string} of ExampleObject_Print
FooBar(foo, bar) ==
    <<"struct", <<[k |-> Lit(<<"F", "o", "o">>), v |-> <<"str", foo>>],
                  [k |-> Lit(<<"B", "a", "r">>), v |-> <<"str", bar>>]>> >>

\* the slices an Array can be
ArrayValues ==
    {<<"nilslice", 0>>, <<"strs", <<>> >>,
     <<"strs", <<Lit(<<"f", "o", "o">>), Lit(<<"b", "a", "r">>)>> >>,
     <<"strs", <<Lit(<<"<", "&", ">">>)>> >>,
     <<"strs", <<Lit(<<"\n", "\t", "\r">>), <<>>, EncodeRunes(<<1076, 128162>>)>> >>}

\* The structures pointers lead to: 1 is a FooBar, 2 a struct whose field
\* Next points to the struct itself, 3 a struct holding a channel.
CodecHeap ==
    <<FooBar(Lit(<<"F", "O", "O">>), Lit(<<"<", "B", ">">>)),
      <<"struct", <<[k |-> Lit(<<"n", "e", "x", "t">>), v |-> <<"ptr", 2>>]>> >>,
      <<"struct", <<[k |-> Lit(<<"c">>), v |-> <<"chan", 0>>]>> >> >>

\* typed values a wrapper can hold besides the generic ones; the last four
\* cannot be encoded (a channel, a cycle, invalid UTF-8 is encoded as U+FFFD)
TypedValues ==
    ArrayValues
      \cup {FooBar(Lit(<<"F", "O", "O">>), Lit(<<"B", "A", "R">>)),
            <<"ptr", 0>>, <<"ptr", 1>>, <<"str", <<255>> >>,
            <<"chan", 0>>, <<"ptr", 2>>, <<"ptr", 3>>,
            <<"arr", <<Nil, <<"chan", 0>> >> >>}

Receiver(kind, v) == [kind |-> kind, v |-> v]

\* the receivers of the encoding methods
CodecReceivers ==
    {Receiver("Array", v) : v \in ArrayValues}
      \cup {Receiver("Object", v) : v \in GenericValues \cup TypedValues}
      \cup {Receiver("This", v) : v \in Leaves \cup TypedValues}

\* the struct Data of ExampleReq, its fields named by their json tags
Data(get, post, put, patch, delete, c, i) ==
    <<"struct", <<[k |-> Lit(<<"g", "e", "t">>), v |-> <<"str", get>>],
                  [k |-> Lit(<<"p", "o", "s", "t">>), v |-> <<"str", post>>],
                  [k |-> Lit(<<"p", "u", "t">>), v |-> <<"str", put>>],
                  [k |-> Lit(<<"p", "a", "t", "c", "h">>), v |-> <<"str", patch>>],
                  [k |-> Lit(<<"d", "e", "l", "e", "t", "e">>), v |-> <<"str", delete>>],
                  [k |-> Lit(<<"c">>), v |-> <<"str", c>>],
                  [k |-> Lit(<<"i">>), v |-> <<"str", i>>]>> >>

\* data := &Data{Changed: "o", Ignored: "i"}: pointer 1 leads to it
DataHeap == <<Data(<<>>, <<>>, <<>>, <<>>, <<>>, Lit(<<"o">>), Lit(<<"i">>))>>

\* jsdata := json.Object{data}, and the other wrappers and contents the
\* calls start from
DataReceivers ==
    {Receiver("Object", v) : v \in {<<"ptr", 1>>, <<"ptr", 0>>, Nil,
                                    <<"str", Lit(<<"f", "o", "o">>)>>}}
      \cup {Receiver("This", v) : v \in {<<"ptr", 1>>, Nil}}

\* the body of the first server of ExampleReq: {"get":"t"}
GetText == Lit(<<"{", "\"", "g", "e", "t", "\"", ":", "\"", "t", "\"", "}">>)

\* the body of its second server: {"post":"t","c":"t"}
PostText == Lit(<<"{", "\"", "p", "o", "s", "t", "\"", ":", "\"", "t", "\"", ",", "\"", "c", "\"", ":", "\"", "t", "\"", "}">>)

\* a key that only folds to a field name: {"GET":"u"}
FoldText == Lit(<<"{", "\"", "G", "E", "T", "\"", ":", "\"", "u", "\"", "}">>)

\* a number for a string field: {"get":1}
NumberText == Lit(<<"{", "\"", "g", "e", "t", "\"", ":", "1", "}">>)

\* a key that names no field, and null for a field: {"zz":[1],"i":null}
UnknownText == Lit(<<"{", "\"", "z", "z", "\"", ":", "[", "1", "]", ",", "\"", "i", "\"", ":", "n", "u", "l", "l", "}">>)

\* a string: "x"
StringText == Lit(<<"\"", "x", "\"">>)

\* null: null
NullText == Lit(<<"n", "u", "l", "l">>)

\* an object cut short: {"get":"t"
TruncatedText == Lit(<<"{", "\"", "g", "e", "t", "\"", ":", "\"", "t", "\"">>)

\* a number for one field and a string for the next: {"get":1,"put":"t"}
MixedText == Lit(<<"{", "\"", "g", "e", "t", "\"", ":", "1", ",", "\"", "p", "u", "t", "\"", ":", "\"", "t", "\"", "}">>)

\* a key and a second that folds to the same field: {"c":"a","C":"b"}
TwiceText == Lit(<<"{", "\"", "c", "\"", ":", "\"", "a", "\"", ",", "\"", "C", "\"", ":", "\"", "b", "\"", "}">>)

\* the texts handed to UnmarshalJSON and sent by the servers
Texts ==
    {GetText, PostText, FoldText, NumberText, UnknownText, StringText,
     NullText, TruncatedText, MixedText, TwiceText}

\* no call of Client.Do yet, or none in the last call of Req
NoResponse == [kind |-> "none"]

\* an answer of the server: the status line's code and text, and the body
Response(code, status, body, readOk) ==
    [kind |-> "response", code |-> code, status |-> status, body |-> body,
     readOk |-> readOk]

\* what a call of Client.Do can bring: an error, answers in the 200s with
\* every body, one whose body cannot be read, and answers outside the 200s
Responses ==
    {[kind |-> "fail"]}
      \cup {Response(200, Lit(<<"2", "0", "0", " ", "O", "K">>), t, TRUE) : t \in Texts}
      \cup {Response(299, Lit(<<"2", "9", "9", " ">>), PostText, TRUE)}
      \cup {Response(200, Lit(<<"2", "0", "0", " ", "O", "K">>), GetText, FALSE)}
      \cup {Response(199, Lit(<<"1", "9", "9", " ">>), TruncatedText, FALSE),
            Response(300, Lit(<<"3", "0", "0", " ", "%", "d">>), PostText, TRUE),
            Response(404, Lit(<<"4", "0", "4", " ", "N", "o", "t", " ", "F", "o", "u", "n", "d">>), GetText, TRUE),
            Response(500, Lit(<<"5", "0", "0", " ", "1", "0", "0", "%">>), NullText, TRUE)}

Request(method, url, qs, body, data) ==
    [method |-> method, url |-> url, qs |-> qs, body |-> body, data |-> data]

\* a form with one value, for the query string or the body
Form == <<[k |-> Lit(<<"q">>), v |-> Lit(<<"a", " ", "&">>)]>>

\* the URL of a server, and one with a control character in it
ServerURL == Lit(<<"h", "t", "t", "p", ":", "/", "/", "s">>)
ControlURL == Lit(<<"h", "t", "t", "p", ":", "/", "/", "s">>) \o <<127>>

\* the arguments of Req: those of ExampleReq, with a query and a body, with
\* no method, with a target that is nil, and with a method
\* or a URL that http.NewRequest refuses, each with and without a body
Requests ==
    {Request(Lit(<<"G", "E", "T">>), ServerURL, NilValues, NilValues, <<"ptr", 1>>),
     Request(Lit(<<"P", "O", "S", "T">>), ServerURL, Form, Form, <<"ptr", 1>>),
     Request(<<>>, ServerURL, NilValues, <<>>, <<"ptr", 1>>),
     Request(Lit(<<"G", "E", "T">>), ServerURL, NilValues, NilValues, Nil),
     Request(Lit(<<"G", " ", "T">>), ServerURL, NilValues, NilValues, <<"ptr", 1>>),
     Request(Lit(<<"G", " ", "T">>), ServerURL, NilValues, Form, <<"ptr", 1>>),
     Request(Lit(<<"G", "E", "T">>), ControlURL, NilValues, NilValues, <<"ptr", 1>>),
     Request(Lit(<<"G", "E", "T">>), ControlURL, Form, <<>>, <<"ptr", 1>>)}

\* What Client.Do can bring for a request: every response for the call of
\* ExampleReq, an error, a response in the 200s and one outside them for the
\* other requests; none is asked for when the request cannot be built.
Answers(rq) ==
    IF ~Builds(rq) THEN {NoResponse}
    ELSE IF rq.qs = NilValues /\ rq.body = NilValues /\ rq.data = <<"ptr", 1>>
      THEN Responses
    ELSE {r \in Responses : \/ r.kind = "fail"
                            \/ r.kind = "response" /\ r.code \in {200, 404}
                                 /\ r.body = GetText /\ r.readOk}

\* the string the program assigns to a field
FieldValues == {Lit(<<"<", "t", ">">>)}

----------------------------------------------------------------------------
(* The calls.  Every call records its name in op, what it returned in ret  *)
(* and err, and what it wrote in stdout and logch.                         *)

\* a call of Escape(in)
CallEscape ==
    /\ op = "init"
    /\ op' = "Escape"
    /\ ret' = Escape(in)
    /\ UNCHANGED <<in, recv, heap, stdout, logch, err, calls, sent, panicked, res>>

\* a call of s.JSON()
CallJSON ==
    /\ With(JSON(recv, heap), LAMBDA m : ret' = m.b /\ err' = m.e)
    /\ op' = "JSON"
    /\ UNCHANGED <<in, recv, heap, stdout, logch, calls, sent, panicked, res>>

\* a call of s.JSONL(), which This does not have
CallJSONL ==
    /\ recv.kind # "This"
    /\ With(JSONL(recv, heap), LAMBDA m : ret' = m.b /\ err' = m.e)
    /\ op' = "JSONL"
    /\ UNCHANGED <<in, recv, heap, stdout, logch, calls, sent, panicked, res>>

\* a call of Marshal(v) with the receiver's value
CallMarshal ==
    /\ With(Marshal(recv.v, heap), LAMBDA m : ret' = m.b /\ err' = m.e)
    /\ op' = "Marshal"
    /\ UNCHANGED <<in, recv, heap, stdout, logch, calls, sent, panicked, res>>

\* a call of MarshalIndent(v, "  ", "  ") with the receiver's value
CallMarshalIndent ==
    /\ With(MarshalIndent(recv.v, heap, TwoSpaces, TwoSpaces),
            LAMBDA m : ret' = m.b /\ err' = m.e)
    /\ op' = "MarshalIndent"
    /\ UNCHANGED <<in, recv, heap, stdout, logch, calls, sent, panicked, res>>

\* a call of s.String()
CallString ==
    /\ calls < MaxCalls
    /\ calls' = calls + 1
    /\ With(String(recv, heap), LAMBDA r :
            ret' = r.s /\ logch' = logch \o r.log)
    /\ err' = ""
    /\ op' = "String"
    /\ UNCHANGED <<in, recv, heap, stdout, sent, panicked, res>>

\* a call of s.StringLong(), which This does not have
CallStringLong ==
    /\ recv.kind # "This"
    /\ calls < MaxCalls
    /\ calls' = calls + 1
    /\ With(StringLong(recv, heap), LAMBDA r :
            ret' = r.s /\ logch' = logch \o r.log)
    /\ err' = ""
    /\ op' = "StringLong"
    /\ UNCHANGED <<in, recv, heap, stdout, sent, panicked, res>>

\* a call of s.Print(): fmt.Println(s.String())
CallPrint ==
    /\ calls < MaxCalls
    /\ calls' = calls + 1
    /\ With(String(recv, heap), LAMBDA r :
            stdout' = Append(stdout, Println(r.s)) /\ logch' = logch \o r.log)
    /\ ret' = <<>>
    /\ err' = ""
    /\ op' = "Print"
    /\ UNCHANGED <<in, recv, heap, sent, panicked, res>>

\* a call of s.PrintLong(): fmt.Println(s.StringLong())
CallPrintLong ==
    /\ recv.kind # "This"
    /\ calls < MaxCalls
    /\ calls' = calls + 1
    /\ With(StringLong(recv, heap), LAMBDA r :
            stdout' = Append(stdout, Println(r.s)) /\ logch' = logch \o r.log)
    /\ ret' = <<>>
    /\ err' = ""
    /\ op' = "PrintLong"
    /\ UNCHANGED <<in, recv, heap, sent, panicked, res>>

\* a call of s.Log(): log.Print(s.String())
CallLog ==
    /\ calls < MaxCalls
    /\ calls' = calls + 1
    /\ With(String(recv, heap), LAMBDA r :
            logch' = logch \o r.log \o LogPrint(<<"text", r.s>>))
    /\ ret' = <<>>
    /\ err' = ""
    /\ op' = "Log"
    /\ UNCHANGED <<in, recv, heap, stdout, sent, panicked, res>>

\* a call of s.LogLong(): each.Log(to.Lines(s.StringLong()))
CallLogLong ==
    /\ recv.kind # "This"
    /\ calls < MaxCalls
    /\ calls' = calls + 1
    /\ With(StringLong(recv, heap), LAMBDA r :
            logch' = logch \o r.log \o EachLog(Lines(r.s)))
    /\ ret' = <<>>
    /\ err' = ""
    /\ op' = "LogLong"
    /\ UNCHANGED <<in, recv, heap, stdout, sent, panicked, res>>

\* an assignment to a field of the struct behind pointer 1, as in
\* data.Get = "t"
SetField ==
    /\ calls < MaxCalls
    /\ calls' = calls + 1
    /\ \E f \in 1..Len(Val(heap[1])), x \in FieldValues :
          heap' = [heap EXCEPT ![1] =
                     <<"struct", [Val(heap[1]) EXCEPT ![f].v = <<"str", x>>]>>]
    /\ ret' = <<>>
    /\ err' = ""
    /\ op' = "SetField"
    /\ UNCHANGED <<in, recv, stdout, logch, sent, panicked, res>>

\* a call of s.UnmarshalJSON(b)
CallUnmarshalJSON ==
    /\ calls < MaxCalls
    /\ calls' = calls + 1
    /\ \E b \in Texts :
          /\ in' = b
          /\ With(UnmarshalThis(b, recv.v, heap), LAMBDA r :
                  /\ recv' = [recv EXCEPT !.v = r.v]
                  /\ heap' = r.h
                  /\ err' = r.e)
    /\ ret' = <<>>
    /\ op' = "UnmarshalJSON"
    /\ UNCHANGED <<stdout, logch, sent, panicked, res>>

\* a call of Req(method, url, qs, body, data); res records what Client.Do
\* brought, in the body the server sent, ret the text of the error when it
\* is the status
CallReq ==
    /\ calls < MaxCalls
    /\ calls' = calls + 1
    /\ \E rq \in Requests :
          \E net \in Answers(rq) :
              /\ in' = IF net.kind = "response" THEN net.body ELSE <<>>
              /\ With(Req(rq, net, heap), LAMBDA r :
                      /\ heap' = r.h
                      /\ err' = r.e
                      /\ ret' = r.msg
                      /\ sent' = sent + r.sent
                      /\ panicked' = r.panic)
              /\ res' = net
    /\ op' = "Req"
    /\ UNCHANGED <<recv, stdout, logch>>

----------------------------------------------------------------------------
(* The specifications.                                                     *)

\* Escape applied to every input
InitEscape ==
    /\ in \in EscapeInputs
    /\ recv = Receiver("Array", <<"nilslice", 0>>)
    /\ heap = <<>>
    /\ stdout = <<>>
    /\ logch = <<>>
    /\ ret = <<>>
    /\ err = ""
    /\ op = "init"
    /\ calls = 0
    /\ sent = 0
    /\ panicked = FALSE
    /\ res = NoResponse

NextEscape == CallEscape

SpecEscape == InitEscape /\ [][NextEscape]_vars

\* the encoding methods and functions applied to every receiver
InitCodec ==
    /\ in = <<>>
    /\ recv \in CodecReceivers
    /\ heap = CodecHeap
    /\ stdout = <<>>
    /\ logch = <<>>
    /\ ret = <<>>
    /\ err = ""
    /\ op = "init"
    /\ calls = 0
    /\ sent = 0
    /\ panicked = FALSE
    /\ res = NoResponse

NextCodec == CallJSON \/ CallJSONL \/ CallMarshal \/ CallMarshalIndent

SpecCodec == InitCodec /\ [][NextCodec]_vars

\* the values held by the receivers of the printing and logging methods
OutputValues == FewLeaves \cup Inner \cup TypedValues

OutputReceivers ==
    {Receiver("Array", v) : v \in ArrayValues}
      \cup {Receiver(kind, v) : kind \in {"Object", "This"}, v \in OutputValues}

\* the printing and logging methods, called one after another on a receiver
InitOutput ==
    /\ in = <<>>
    /\ recv \in OutputReceivers
    /\ heap = CodecHeap
    /\ stdout = <<>>
    /\ logch = <<>>
    /\ ret = <<>>
    /\ err = ""
    /\ op = "init"
    /\ calls = 0
    /\ sent = 0
    /\ panicked = FALSE
    /\ res = NoResponse

NextOutput ==
    \/ CallString
    \/ CallStringLong
    \/ CallPrint
    \/ CallPrintLong
    \/ CallLog
    \/ CallLogLong

SpecOutput == InitOutput /\ [][NextOutput]_vars

\* the program of ExampleReq: a wrapper around a pointer to a struct, the
\* struct changed by assignments, by UnmarshalJSON and by Req, and shown by
\* JSON, String and Print; a panic ends the program
Init ==
    /\ in = <<>>
    /\ recv \in DataReceivers
    /\ heap = DataHeap
    /\ stdout = <<>>
    /\ logch = <<>>
    /\ ret = <<>>
    /\ err = ""
    /\ op = "init"
    /\ calls = 0
    /\ sent = 0
    /\ panicked = FALSE
    /\ res = NoResponse

Next ==
    \/ ~panicked /\ SetField
    \/ ~panicked /\ CallUnmarshalJSON
    \/ ~panicked /\ CallReq
    \/ ~panicked /\ CallJSON
    \/ ~panicked /\ CallString
    \/ ~panicked /\ CallPrint

Spec == Init /\ [][Next]_vars

\* wrappers around a struct, a pointer to a struct or a map that
\* UnmarshalJSON has filled, encoded by JSON and JSONL
InitKeys ==
    /\ in = <<>>
    /\ recv \in DataReceivers
                 \cup {Receiver("Object", FooBar(Lit(<<"F", "O", "O">>), Lit(<<"B", "A", "R">>)))}
    /\ heap = DataHeap
    /\ stdout = <<>>
    /\ logch = <<>>
    /\ ret = <<>>
    /\ err = ""
    /\ op = "init"
    /\ calls = 0
    /\ sent = 0
    /\ panicked = FALSE
    /\ res = NoResponse

NextKeys == CallUnmarshalJSON \/ CallJSON \/ CallJSONL

SpecKeys == InitKeys /\ [][NextKeys]_vars

----------------------------------------------------------------------------
(* Properties of Escape, checked under SpecEscape.                         *)

\* the seven characters with a two-character escape, and the second
\* character of each
Escaped ==
    {<<Ord("\t"), Ord("t")>>, <<Ord("BS"), Ord("b")>>, <<Ord("\f"), Ord("f")>>,
     <<Ord("\n"), Ord("n")>>, <<Ord("\r"), Ord("r")>>, <<Ord("\\"), Ord("\\")>>,
     <<Ord("\""), Ord("\"")>>}

\* the text every character of rs stands for after escaping: backslash and
\* letter for the seven, the character's own bytes for another
RECURSIVE Replaced(_)
Replaced(rs) ==
    IF rs = <<>> THEN <<>>
    ELSE (IF \E e \in Escaped : e[1] = Head(rs)
            THEN <<Ord("\\"), (CHOOSE e \in Escaped : e[1] = Head(rs))[2]>>
            ELSE EncodeRune(Head(rs)))
         \o Replaced(Tail(rs))

\* C1: for valid UTF-8 input, Escape returns the input with each of the
\* seven characters replaced in place by its two-character escape and every
\* other character copied; an input with none of the seven comes back
\* unchanged.
C1_EscapeTable ==
    (op = "Escape" /\ ValidString(in)) =>
        /\ ret = Replaced(Runes(in))
        /\ (\A i \in 1..Len(in) : \A e \in Escaped : in[i] # e[1]) => ret = in

\* C1's case: a tab, an emoji and a < have been escaped.
C1_Witness ==
    /\ op = "Escape"
    /\ in = EncodeRunes(<<Ord("\t"), 128162, Ord("<")>>)
    /\ ret = Lit(<<"\\", "t">>) \o EncodeRune(128162) \o Lit(<<"<">>)

\* C2: for valid UTF-8 input, Escape(in) between double quotes is a valid
\* JSON string that decodes to in.
C2_QuotedDecodes ==
    (op = "Escape" /\ ValidString(in)) =>
        With(Parse(<<Ord("\"")>> \o ret \o <<Ord("\"")>>),
             LAMBDA x : x.ok /\ x.v = <<"str", in>>)

----------------------------------------------------------------------------
(* Properties of JSON() and JSONL(), checked under SpecCodec.              *)

\* C3: what JSON() returns is what Marshal renders of the same value, and
\* what JSONL() returns is what MarshalIndent renders of it: <, > and & in
\* string leaves are left as they are.
C3_EscapesAsMarshal ==
    /\ (op = "JSON" /\ err = "") => ret = Marshal(recv.v, heap).b
    /\ (op = "JSONL" /\ err = "") =>
           ret = MarshalIndent(recv.v, heap, TwoSpaces, TwoSpaces).b

\* a Serializable Value: null, a boolean, a number, a string of valid
\* UTF-8, an array of such values or an object of them with valid keys
RECURSIVE Serializable(_)
Serializable(v) ==
    CASE Tag(v) \in {"nil", "bool", "num"} -> TRUE
      [] Tag(v) = "str" -> ValidString(Val(v))
      [] Tag(v) = "strs" -> \A i \in 1..Len(Val(v)) : ValidString(Val(v)[i])
      [] Tag(v) = "arr" -> \A i \in 1..Len(Val(v)) : Serializable(Val(v)[i])
      [] Tag(v) = "map" ->
           \A k \in DOMAIN Val(v) : ValidString(k) /\ Serializable(Val(v)[k])
      [] OTHER -> FALSE

\* the value as a decoder into an empty interface renders it: a []string is
\* an array of strings
Generic(v) ==
    IF Tag(v) = "strs"
      THEN <<"arr", [i \in 1..Len(Val(v)) |-> <<"str", Val(v)[i]>>]>>
      ELSE v

\* C4: for a Serializable Value, JSON() and JSONL() succeed and their output
\* decodes to a value structurally equal to it.
C4_RoundTrip ==
    (op \in {"JSON", "JSONL"} /\ Serializable(recv.v)) =>
        /\ err = ""
        /\ With(Parse(ret), LAMBDA x : x.ok /\ x.v = Generic(recv.v))

\* C4's case: the indented text of an object holding an array and an object
\* has been decoded back.
C4_Witness ==
    /\ op = "JSONL"
    /\ recv = Receiver("Object",
                Map2(Lit(<<"b">>), <<"arr", <<Str(Lit(<<"f", "o", "o">>))>> >>,
                     Lit(<<"a">>), Map1(Lit(<<"a">>), <<"num", 12>>)))
    /\ err = ""
    /\ Len(Lines(ret)) = 8
    /\ Parse(ret).v = recv.v

\* the text between the line terminators of s
RECURSIVE SplitLines(_)
SplitLines(s) ==
    IF \A i \in 1..Len(s) : s[i] # Ord("\n") THEN <<s>>
    ELSE LET n == CHOOSE i \in 1..Len(s) :
                    s[i] = Ord("\n") /\ \A j \in 1..(i - 1) : s[j] # Ord("\n")
         IN  <<SubSeq(s, 1, n - 1)>> \o SplitLines(SubSeq(s, n + 1, Len(s)))

\* the number of spaces a line starts with
Indentation(l) ==
    CHOOSE n \in 0..Len(l) :
        /\ \A j \in 1..n : l[j] = Ord(" ")
        /\ n = Len(l) \/ l[n + 1] # Ord(" ")

\* a line that ends with an opening bracket, and one that starts with a
\* closing bracket
Opens(l) == l # <<>> /\ l[Len(l)] \in {Ord("["), Ord("{")}
Closes(l) ==
    Indentation(l) < Len(l) /\ l[Indentation(l) + 1] \in {Ord("]"), Ord("}")}

\* Every line after the first is indented as the level it is at asks: 2 more
\* than the line before if that one opens a structure, 2 less if the line
\* closes one; first is the indentation the first line counts as.
Stepped(ls, first) ==
    \A i \in 1..(Len(ls) - 1) :
        Indentation(ls[i + 1]) =
            (IF i = 1 THEN first ELSE Indentation(ls[i]))
              + (IF Opens(ls[i]) THEN 2 ELSE 0)
              - (IF Closes(ls[i + 1]) THEN 2 ELSE 0)

\* the Array of ExampleArray_JSONL
FooBarArray ==
    Receiver("Array", <<"strs", <<Lit(<<"f", "o", "o">>), Lit(<<"b", "a", "r">>)>> >>)

\* C5, as the specification words it: each level is 2 deeper than its parent
\* and a closing bracket is at the indentation of its opening bracket; the
\* text of ["foo","bar"] has 4 lines, the elements 2 deeper than both
\* brackets.
C5_BracketsAligned ==
    (op = "JSONL" /\ err = "") =>
        LET ls == SplitLines(ret)
        IN  /\ Stepped(ls, Indentation(ls[1]))
            /\ recv = FooBarArray =>
                 /\ Len(ls) = 4
                 /\ Indentation(ls[2]) = Indentation(ls[1]) + 2
                 /\ Indentation(ls[3]) = Indentation(ls[1]) + 2
                 /\ Indentation(ls[4]) = Indentation(ls[1])

\* C5, amended: the first line is not indented, and the lines after it are
\* indented as if it were at 2, so that a level is 2 deeper than its parent
\* and a closing bracket sits 2 deeper than the outermost opening bracket;
\* the text of ["foo","bar"] has 4 lines, the brackets at 0 and 2 and the
\* elements at 4.
C5_IndentedByPrefix ==
    (op = "JSONL" /\ err = "") =>
        LET ls == SplitLines(ret)
        IN  /\ Indentation(ls[1]) = 0
            /\ Stepped(ls, 2)
            /\ recv = FooBarArray =>
                 ls = <<Lit(<<"[">>),
                        Lit(<<" ", " ", " ", " ", "\"", "f", "o", "o", "\"", ",">>),
                        Lit(<<" ", " ", " ", " ", "\"", "b", "a", "r", "\"">>),
                        Lit(<<" ", " ", "]">>)>>

\* C5's case: the indented text of an array in an array has been produced,
\* the inner elements at 6.
C5_Witness ==
    /\ op = "JSONL"
    /\ err = ""
    /\ recv = Receiver("Object",
                <<"arr", <<<<"arr", <<Str(Lit(<<"f", "o", "o">>))>> >>,
                           <<"arr", <<>> >> >> >>)
    /\ SplitLines(ret)
         = <<Lit(<<"[">>),
             Lit(<<" ", " ", " ", " ", "[">>),
             Lit(<<" ", " ", " ", " ", " ", " ", "\"", "f", "o", "o", "\"">>),
             Lit(<<" ", " ", " ", " ", "]", ",">>),
             Lit(<<" ", " ", " ", " ", "[", "]">>),
             Lit(<<" ", " ", "]">>)>>

----------------------------------------------------------------------------
(* Properties of the printing and logging methods, checked under           *)
(* SpecOutput.  Each is about the step a call makes: op' names the call,   *)
(* the unprimed variables are the channels before it.                      *)

\* What a stringify call does with the outcome m of the encoding: on an
\* error it returns the empty text and logs the error as one record, else it
\* returns the bytes and logs nothing; nothing goes to standard output and
\* no error is returned.
BestEffort(m) ==
    /\ IF m.e # ""
         THEN ret' = <<>> /\ logch' = Append(logch, <<"error", m.e>>)
         ELSE ret' = m.b /\ logch' = logch
    /\ err' = ""
    /\ stdout' = stdout

\* C6: String() and StringLong() return normally whatever JSON() / JSONL()
\* does: the empty text and one log record holding the error when the
\* encoding fails, the bytes of JSON() / JSONL() and no log record when it
\* succeeds.
C6_StringBestEffort ==
    [][/\ op' = "String" => BestEffort(JSON(recv, heap))
       /\ op' = "StringLong" => BestEffort(JSONL(recv, heap))]_vars

\* C6's case: String() of a wrapper holding a self-referential structure
\* has returned the empty text and logged the error.
C6_Witness ==
    /\ op = "String"
    /\ recv = Receiver("Object", <<"ptr", 2>>)
    /\ JSON(recv, heap).e # ""
    /\ ret = <<>>
    /\ logch = <<<<"error", JSON(recv, heap).e>>>>

\* C7: when the indented encoding succeeds, LogLong() appends one record
\* for each line of StringLong(), in order, and none of the records holds a
\* line terminator.
C7_LogLongLines ==
    [][(op' = "LogLong" /\ JSONL(recv, heap).e = "") =>
          LET ls == SplitLines(StringLong(recv, heap).s)
          IN  /\ logch' = logch \o [i \in 1..Len(ls) |-> <<"text", ls[i]>>]
              /\ \A i \in (Len(logch) + 1)..Len(logch') :
                   \A j \in 1..Len(logch'[i][2]) : logch'[i][2][j] # Ord("\n")
              /\ stdout' = stdout]_vars

\* C7's case: LogLong() of a 3-line encoding has written 3 records.
C7_Witness ==
    /\ op = "LogLong"
    /\ recv = Receiver("Object", <<"arr", <<Str(Lit(<<"f", "o", "o">>))>> >>)
    /\ logch = <<<<"text", Lit(<<"[">>)>>,
                 <<"text", Lit(<<" ", " ", " ", " ", "\"", "f", "o", "o", "\"">>)>>,
                 <<"text", Lit(<<" ", " ", "]">>)>>>>

\* C8: Print() writes String() and one line terminator to standard output,
\* PrintLong() the same of StringLong(), and Log() appends one record equal
\* to String(); besides that only what String() / StringLong() itself logs
\* is written, which is nothing when the encoding succeeds.
C8_OutputIsStringify ==
    [][/\ op' = "Print" =>
            /\ stdout' = Append(stdout, String(recv, heap).s \o <<Ord("\n")>>)
            /\ logch' = logch \o String(recv, heap).log
            /\ JSON(recv, heap).e = "" => logch' = logch
       /\ op' = "PrintLong" =>
            /\ stdout' = Append(stdout, StringLong(recv, heap).s \o <<Ord("\n")>>)
            /\ logch' = logch \o StringLong(recv, heap).log
            /\ JSONL(recv, heap).e = "" => logch' = logch
       /\ op' = "Log" =>
            /\ logch' = logch \o String(recv, heap).log
                          \o <<<<"text", String(recv, heap).s>>>>
            /\ JSON(recv, heap).e = "" => Len(logch') = Len(logch) + 1
            /\ stdout' = stdout]_vars

\* C8's case: Print() and then Log() of ["foo","bar"] have written the
\* compact text once to each channel.
C8_Witness ==
    /\ op = "Log"
    /\ recv = FooBarArray
    /\ stdout = <<Lit(<<"[", "\"", "f", "o", "o", "\"", ",", "\"", "b", "a", "r", "\"", "]", "\n">>)>>
    /\ logch = <<<<"text", Lit(<<"[", "\"", "f", "o", "o", "\"", ",", "\"", "b", "a", "r", "\"", "]">>)>>>>

----------------------------------------------------------------------------
(* Properties of the wrappers around changing contents, checked under      *)
(* Spec.                                                                   *)

\* What a wrapper's field holds, as a JSON value: what a pointer leads to
\* (null for a nil pointer), and a struct as the object of its fields.
Contents(v, h) ==
    LET x == IF Tag(v) # "ptr" THEN v
             ELSE IF Val(v) = 0 THEN Nil ELSE h[Val(v)]
        fs == Val(x)
    IN  IF Tag(x) # "struct" THEN x
        ELSE <<"map", [key \in {fs[i].k : i \in DOMAIN fs} |->
                         fs[CHOOSE i \in DOMAIN fs : fs[i].k = key].v]>>

\* the text the last call of JSON() or String() returned, or the line the
\* last call of Print() wrote, without its line terminator
Shown ==
    IF op = "Print"
      THEN SubSeq(stdout[Len(stdout)], 1, Len(stdout[Len(stdout)]) - 1)
      ELSE ret

\* C9: whatever assignments and decodes (by UnmarshalJSON, and by Req into
\* a pointer the wrapper holds) came before, JSON(), String() and Print() of
\* a wrapper give exactly the encoding of what its field holds now: the text
\* is json.Marshal of the field, it decodes to the current contents, and it
\* is not an object around them with the key This.
C9_WrapperTransparent ==
    op \in {"JSON", "String", "Print"} =>
        /\ Shown = StdMarshal(recv.v, heap).b
        /\ op = "JSON" => err = ""
        /\ op = "Print" => stdout[Len(stdout)] = Shown \o <<Ord("\n")>>
        /\ \E x \in {Parse(Shown)} :
              /\ x.ok
              /\ x.v = Contents(recv.v, heap)
              /\ Tag(x.v) = "map" =>
                    Lit(<<"T", "h", "i", "s">>) \notin DOMAIN Val(x.v)

\* C9's case: Req has decoded {"get":"t"} into the struct an Object points
\* to, and Print() has then written the struct with the new field.
C9_Witness ==
    /\ op = "Print"
    /\ recv = Receiver("Object", <<"ptr", 1>>)
    /\ sent = 1
    /\ in = GetText
    /\ stdout = <<Lit(<<"{", "\"", "g", "e", "t", "\"", ":", "\"", "t", "\"", ",", "\"", "p", "o", "s", "t", "\"", ":", "\"", "\"", ",", "\"", "p", "u", "t", "\"", ":", "\"", "\"", ",", "\"", "p", "a", "t", "c", "h", "\"", ":", "\"", "\"", ",", "\"", "d", "e", "l", "e", "t", "e", "\"", ":", "\"", "\"", ",", "\"", "c", "\"", ":", "\"", "o", "\"", ",", "\"", "i", "\"", ":", "\"", "i", "\"", "}", "\n">>)>>

\* C10: UnmarshalJSON(text) returns an error exactly when text is not valid
\* JSON, whatever the wrapper's field holds; JSON of a shape the held value
\* cannot take is not an error.
C10_ErrorIffInvalidSyntax ==
    op = "UnmarshalJSON" => (err # "" <=> ~Valid(in))

----------------------------------------------------------------------------
(* Properties of the order of keys, checked under SpecKeys.                *)

\* the keys of the object a text holds, in the order of the text
MemberKeys(text) ==
    LET x == ParseRaw(text)
    IN  IF x.ok /\ Tag(x.v) = "obj"
          THEN [i \in 1..Len(Val(x.v)) |-> Val(x.v)[i].k]
          ELSE <<>>

\* what the wrapper's field holds or points to
Held(v, h) == IF Tag(v) = "ptr" /\ Val(v) # 0 THEN h[Val(v)] ELSE v

\* the keys of the encoding text of a struct are those of its fields, in
\* the order of their declaration
FieldOrder(x, text) ==
    Tag(x) = "struct" => MemberKeys(text) = [i \in 1..Len(Val(x)) |-> Val(x)[i].k]

\* C11 as stated: JSON() and JSONL() give the keys of a struct in the order
\* of its fields, and the keys of a map in the order they were inserted in,
\* which for a map that UnmarshalJSON has just built is the order of the
\* text it decoded.
C11_KeysAsInserted ==
    [][(op' \in {"JSON", "JSONL"} /\ err' = "") =>
          /\ FieldOrder(Held(recv'.v, heap'), ret')
          /\ (op = "UnmarshalJSON" /\ err = "" /\ Tag(recv.v) = "map") =>
                MemberKeys(ret') = MemberKeys(in)]_vars

\* C11: JSON() and JSONL() give the keys of a struct in the order of its
\* fields and the keys of a map in ascending byte order, each key once,
\* whatever order they were inserted in; so the text depends on the keys and
\* values alone.
C11_KeysSorted ==
    (op \in {"JSON", "JSONL"} /\ err = "") =>
        /\ FieldOrder(Held(recv.v, heap), ret)
        /\ Tag(recv.v) = "map" =>
              /\ {MemberKeys(ret)[i] : i \in DOMAIN MemberKeys(ret)} = DOMAIN Val(recv.v)
              /\ \A i, j \in DOMAIN MemberKeys(ret) :
                    i < j => Less(MemberKeys(ret)[i], MemberKeys(ret)[j])
              /\ Parse(ret).v = recv.v

\* C11's case: UnmarshalJSON has built a map from {"zz":[1],"i":null} and
\* JSONL() gives the key i before the key zz.
C11_Witness ==
    /\ op = "JSONL"
    /\ in = UnknownText
    /\ Tag(recv.v) = "map"
    /\ MemberKeys(in) = <<Lit(<<"z", "z">>), Lit(<<"i">>)>>
    /\ MemberKeys(ret) = <<Lit(<<"i">>), Lit(<<"z", "z">>)>>

----------------------------------------------------------------------------
(* Properties of Req, checked under Spec.                                  *)

\* the members of the object a response body holds, none for null
Members(body) ==
    LET x == ParseRaw(body)
    IN  IF x.ok /\ Tag(x.v) = "obj" THEN Val(x.v) ELSE <<>>

\* the last of a non-empty set of positions
Last(ps) == CHOOSE i \in ps : \A j \in ps : j <= i

\* The struct new is the struct old with exactly the fields overwritten
\* that one of the members ms, picked by Names(key, field name, value),
\* names, each with the value of the last such member.
Overwritten(old, new, ms, Names(_, _, _)) ==
    /\ Tag(new) = "struct"
    /\ Len(Val(new)) = Len(Val(old))
    /\ \A f \in DOMAIN Val(old) :
          LET hits == {i \in DOMAIN ms : Names(ms[i].k, Val(old)[f].k, ms[i].v)}
          IN  /\ Val(new)[f].k = Val(old)[f].k
              /\ Val(new)[f].v = IF hits = {} THEN Val(old)[f].v
                                 ELSE ms[Last(hits)].v

\* a member names the field whose name is its key
NamesExactly(key, name, x) == key = name

\* a member names the field whose name is its key, the case of letters
\* ignored, unless its value is null
NamesFolded(key, name, x) == EqualFold(key, name) /\ Tag(x) # "nil"

InThe200s(r) == r.kind = "response" /\ 200 <= r.code /\ r.code < 300

\* C13: a call of Req makes at most one HTTP call; after a response with a
\* status outside the 200s it returns an error whose text is the status
\* message, whether or not the body could be read or decoded, and the
\* target is as before; it returns nil only after a response in the 200s
\* whose body was read and decoded.
C13_StatusIsTheError ==
    [][(op' = "Req" /\ ~panicked') =>
          /\ sent' \in {sent, sent + 1}
          /\ (res'.kind = "response" /\ ~InThe200s(res')) =>
                /\ err' # ""
                /\ ret' = res'.status
                /\ heap' = heap
          /\ err' = "" =>
                /\ InThe200s(res')
                /\ res'.readOk
                /\ Valid(res'.body)]_vars

\* C14: when http.NewRequest fails, Req returns its error: it does not
\* panic, makes no HTTP call and leaves the target alone, with a body and
\* without.
C14_ConstructionErrorReturned ==
    [][(op' = "Req" /\ res' = NoResponse) =>
          /\ ~panicked'
          /\ err' # ""
          /\ sent' = sent
          /\ heap' = heap]_vars

============================================================================
